---- MODULE Spec2Model ----
(***************************************************************************)
(* Model of the reconcile cache of Perforce-Friend:                        *)
(*   src/src/app/api/p4/files/modified/route.ts  (GET /api/p4/files/modified)*)
(* and of the command log of its page:                                     *)
(*   src/lib/p4CommandLogger.ts, src/app/page.tsx, src/lib/p4Service.ts    *)
(*                                                                         *)
(* Text is modelled as a sequence of lexemes.  A lexeme is a TLA+ string   *)
(* standing for exactly the characters in it.  Words ("reconcile", "edit") *)
(* consist of \w characters only, " " is whitespace, "\n" is the line      *)
(* break, "#1" is a revision suffix, every other lexeme ("//", "/", "-",   *)
(* "a.txt") holds at least one character that is neither \w nor \s.       *)
(* File-system paths and cache keys are sequences of single characters.    *)
(***************************************************************************)
EXTENDS Integers, Sequences, FiniteSets, TLC

VARIABLES
    fs,        \* the cache directory: file name -> content
    now,       \* Date.now(), in milliseconds
    disk,      \* the workspace as p4 sees it: index into DiskStates
    nreq,      \* number of requests served so far
    req,       \* the last request: parameters, failures, directory and time before it
    resp,      \* the response to the last request
    pin,       \* parser harness: the lines handed to the parser
    pmax,      \* parser harness: maxFiles
    pout,      \* parser harness: the records parsed
    tempCommand,   \* localStorage item "p4_temp_command": <<>> or <<command>>
    existingLogs,  \* localStorage item "perforce_command_logs", newest first
    passed         \* the commands passed to logP4CommandFromAPI so far

vars == <<fs, now, disk, nreq, req, resp, pin, pmax, pout, tempCommand, existingLogs, passed>>

(***************************************************************************)
(* Sequence helpers (JavaScript string/array primitives).                  *)
(***************************************************************************)
RECURSIVE Flatten(_)
Flatten(ss) == IF ss = <<>> THEN <<>> ELSE Head(ss) \o Flatten(Tail(ss))

\* Array.prototype.slice(0, n)
Take(s, n) == IF n >= Len(s) THEN s ELSE SubSeq(s, 1, n)

Drop(s, n) == IF n >= Len(s) THEN <<>> ELSE SubSeq(s, n + 1, Len(s))

\* String.prototype.startsWith
StartsWith(s, p) == Len(p) <= Len(s) /\ SubSeq(s, 1, Len(p)) = p

\* String.prototype.split("\n"): always at least one (possibly empty) piece
RECURSIVE SplitOn(_, _)
SplitOn(s, sep) ==
    IF \A i \in 1..Len(s) : s[i] # sep THEN <<s>>
    ELSE LET i == CHOOSE k \in 1..Len(s) : s[k] = sep /\ \A j \in 1..(k-1) : s[j] # sep
         IN  <<SubSeq(s, 1, i - 1)>> \o SplitOn(Drop(s, i), sep)

\* Array.prototype.join(sep) on sequences of sequences
RECURSIVE Join(_, _)
Join(ss, sep) ==
    IF ss = <<>> THEN <<>>
    ELSE IF Len(ss) = 1 THEN Head(ss)
    ELSE Head(ss) \o sep \o Join(Tail(ss), sep)

(***************************************************************************)
(* Lexeme classes.                                                         *)
(***************************************************************************)
WordLex == {"reconcile", "edit", "add", "ADD", "delete", "opened", "for", "junk",
            "depot", "sub", "ws", "local", "sub2"}
IsWord(x)  == x \in WordLex
IsSpace(x) == x \in {" ", "\n"}
IsRev(x)   == x \in {"#1", "#2"}

\* String.prototype.toLowerCase on one lexeme
LowerLex(x) == IF x = "ADD" THEN "add" ELSE x
ToLowerCase(s) == [i \in 1..Len(s) |-> LowerLex(s[i])]

\* String.prototype.trim
RECURSIVE TrimLeft(_)
TrimLeft(s) == IF s # <<>> /\ IsSpace(Head(s)) THEN TrimLeft(Tail(s)) ELSE s
RECURSIVE TrimRight(_)
TrimRight(s) ==
    IF s # <<>> /\ IsSpace(s[Len(s)]) THEN TrimRight(SubSeq(s, 1, Len(s) - 1)) ELSE s
Trim(s) == TrimRight(TrimLeft(s))

\* length of the run of \w (resp. in-line \s) lexemes of s that starts at i
RECURSIVE WordRun(_, _)
WordRun(s, i) == IF i <= Len(s) /\ IsWord(s[i]) THEN 1 + WordRun(s, i + 1) ELSE 0
RECURSIVE SpaceRun(_, _)
SpaceRun(s, i) == IF i <= Len(s) /\ IsSpace(s[i]) THEN 1 + SpaceRun(s, i + 1) ELSE 0

RECURSIVE WordRunBack(_, _)
WordRunBack(s, i) == IF i >= 1 /\ IsWord(s[i]) THEN 1 + WordRunBack(s, i - 1) ELSE 0
RECURSIVE SpaceRunBack(_, _)
SpaceRunBack(s, i) == IF i >= 1 /\ IsSpace(s[i]) THEN 1 + SpaceRunBack(s, i - 1) ELSE 0

(***************************************************************************)
(* parseP4ReconcileOutput and its two regular expressions.                 *)
(***************************************************************************)
NoMatch == [ok |-> FALSE, action |-> <<>>, depotFile |-> <<>>]

\* mutant: the revision suffix stays in the path
StripRev_Kept(rest) == rest

\* the tail "(.+?)(?:#\d+)?" before an anchor: the lazy group leaves a final
\* revision suffix to the optional group whenever it keeps a character itself
StripRev(rest) ==
    IF Len(rest) > 1 /\ IsRev(rest[Len(rest)]) THEN SubSeq(rest, 1, Len(rest) - 1) ELSE rest

\* "reconcile\s+(\w+)\s+(.+?)(?:#\d+)?$" with "reconcile" at lexeme p
MatchReconcileAt(line, p) ==
    LET s1 == SpaceRun(line, p + 1)
        a  == p + 1 + s1
        w  == WordRun(line, a)
        s2 == SpaceRun(line, a + w)
        r  == a + w + s2
    IN  IF /\ p <= Len(line)
           /\ LowerLex(line[p]) = "reconcile"
           /\ s1 >= 1 /\ w >= 1 /\ s2 >= 1
           /\ r <= Len(line)
        THEN [ok |-> TRUE,
              action |-> SubSeq(line, a, a + w - 1),
              depotFile |-> StripRev(SubSeq(line, r, Len(line)))]
        ELSE NoMatch

\* /^(?:\w+\s+)?reconcile\s+(\w+)\s+(.+?)(?:#\d+)?$/i  (the optional leading
\* word is tried first, then the match without it)
ReconcileMatch(line) ==
    LET w0 == WordRun(line, 1)
        s0 == SpaceRun(line, 1 + w0)
        withWord == IF w0 >= 1 /\ s0 >= 1 THEN MatchReconcileAt(line, 1 + w0 + s0)
                    ELSE NoMatch
    IN  IF withWord.ok THEN withWord ELSE MatchReconcileAt(line, 1)

\* /^(.+?)(?:#\d+)?\s+-\s+opened\s+for\s+(\w+)$/i
OpenedMatch(line) ==
    LET n   == Len(line)
        w   == WordRunBack(line, n)
        s4  == SpaceRunBack(line, n - w)
        iF  == n - w - s4                 \* "for"
        s3  == SpaceRunBack(line, iF - 1)
        iO  == iF - 1 - s3                \* "opened"
        s2  == SpaceRunBack(line, iO - 1)
        iD  == iO - 1 - s2                \* "-"
        s1  == SpaceRunBack(line, iD - 1)
        k   == iD - 1 - s1                \* last lexeme before the blanks
    IN  IF /\ w >= 1 /\ s4 >= 1 /\ s3 >= 1 /\ s2 >= 1 /\ s1 >= 1
           /\ k >= 1
           /\ line[iF] = "for" /\ line[iO] = "opened" /\ line[iD] = "-"
        THEN [ok |-> TRUE,
              action |-> SubSeq(line, n - w + 1, n),
              depotFile |-> StripRev(SubSeq(line, 1, k))]
        ELSE NoMatch

P4ModifiedFile(depotFile, action) ==
    [depotFile |-> depotFile, clientFile |-> <<>>, localFile |-> <<>>,
     status |-> action, type |-> "text"]

\* if (reconcileMatch) ... else if (openedMatch) ... else continue;  files.push(...)
PickMatch(reconcileMatch, openedMatch) ==
    IF reconcileMatch.ok
    THEN <<P4ModifiedFile(reconcileMatch.depotFile, ToLowerCase(reconcileMatch.action))>>
    ELSE IF openedMatch.ok
    THEN <<P4ModifiedFile(openedMatch.depotFile, ToLowerCase(openedMatch.action))>>
    ELSE <<>>

MatchCleanLine(cleanLine) == PickMatch(ReconcileMatch(cleanLine), OpenedMatch(cleanLine))

\* the body of the for loop: the records one line adds (none or one)
ParseLine(line) == MatchCleanLine(Trim(line))

\* mutant: the limit is ignored
LinesToProcess_Unlimited(lines, maxFiles) == lines

\* mutant: the limit counts records, not lines
LinesToProcess_CountsRecords(lines, maxFiles) ==
    IF maxFiles > 0
    THEN Take(SelectSeq(lines, LAMBDA l : ParseLine(l) # <<>>), maxFiles)
    ELSE lines

\* const linesToProcess = maxFiles > 0 ? lines.slice(0, maxFiles) : lines
LinesToProcess(lines, maxFiles) == IF maxFiles > 0 THEN Take(lines, maxFiles) ELSE lines

\* for (const line of linesToProcess) { ... }
ParseLines(linesToProcess) ==
    Flatten([i \in 1..Len(linesToProcess) |-> ParseLine(linesToProcess[i])])

parseP4ReconcileOutput(output, maxFiles) ==
    IF output = <<>> \/ Trim(output) = <<>> THEN <<>>
    ELSE ParseLines(LinesToProcess(SplitOn(Trim(output), "\n"), maxFiles))

(***************************************************************************)
(* Cache keys and cache files.                                             *)
(***************************************************************************)
\* Cache expiration time in milliseconds (60 minutes)
CACHE_EXPIRY_MS == 60 * 60 * 1000

LowerChar(c) == IF c = "C" THEN "c" ELSE IF c = "W" THEN "w" ELSE IF c = "A" THEN "a"
                ELSE IF c = "B" THEN "b" ELSE c

\* String.prototype.replace(/[set]/g, c)
ReplaceAll(s, set, c) == [i \in 1..Len(s) |-> IF s[i] \in set THEN c ELSE s[i]]

\* the folders part of the key: the folders in the order they were supplied
FoldersKey(inclusionFolders) ==
    IF Len(inclusionFolders) > 0
    THEN <<"_">> \o Join([i \in 1..Len(inclusionFolders) |->
                            ReplaceAll(inclusionFolders[i], {"/", "\\"}, "_")], <<"_">>)
    ELSE <<>>

\* the literal "p4reconcile_" is kept as one element, everything after it is
\* one character per element
getCacheKey(clientRoot, inclusionFolders) ==
    LET slashed == ReplaceAll(clientRoot, {"\\"}, "/")
        normalizedRoot == [i \in 1..Len(slashed) |-> LowerChar(slashed[i])]
    IN  <<"p4reconcile_">> \o ReplaceAll(normalizedRoot, {"/", "\\", ":"}, "_")
            \o FoldersKey(inclusionFolders)

CacheFileOf(cacheKey)    == cacheKey \o <<".", "t", "x", "t">>
WhereFileOf(cacheKey)    == cacheKey \o <<"_", "w", "h", "e", "r", "e", ".", "t", "x", "t">>
MetadataFileOf(cacheKey) == cacheKey \o <<"_", "m", "e", "t", "a", "d", "a", "t", "a", ".",
                                          "j", "s", "o", "n">>

\* file contents: raw text, a metadata JSON document, or p4 -ztag where output
TextFile(t)  == [kind |-> "text", text |-> t]
JsonFile(ts, root, folders, processed) ==
    [kind |-> "json", timestamp |-> ts, clientRoot |-> root,
     inclusionFolders |-> folders, processedFolders |-> processed]
WhereFile(b) == [kind |-> "where", blocks |-> b]

existsSync(files, f) == f \in DOMAIN files
writeFile(files, f, c) == (f :> c) @@ files

\* fs.readFileSync(f, "utf8") of a file that holds reconcile output; a file of
\* another kind reads as one line no pattern matches
ReadText(files, f) == IF files[f].kind = "text" THEN files[f].text ELSE <<"junk">>

\* JSON.parse(readFileSync(metadataFile)) succeeded
ParsesAsJson(files, f) == files[f].kind = "json"

\* creationTime: 0 unless the metadata file parses and carries a timestamp
\* (new Date(iso).getTime() of a toISOString() value gives back the same ms)
CreationTime(files, metadataFile) ==
    IF existsSync(files, metadataFile) /\ ParsesAsJson(files, metadataFile)
       /\ files[metadataFile].timestamp # 0
    THEN files[metadataFile].timestamp
    ELSE 0

\* mutant: the age of the entry is not looked at
CacheIsFresh_AnyAge(files, t, cacheFile, metadataFile) == existsSync(files, cacheFile)

\* fs.existsSync(cacheFile) && Date.now() - creationTime < CACHE_EXPIRY_MS
CacheIsFresh(files, t, cacheFile, metadataFile) ==
    existsSync(files, cacheFile) /\ t - CreationTime(files, metadataFile) < CACHE_EXPIRY_MS

\* output = null is isNull = TRUE; a readFileSync(cacheFile) that throws ends in
\* the catch of lines 196-199
getCachedReconcileResults(files, t, clientRoot, inclusionFolders, env) ==
    LET cacheKey == getCacheKey(clientRoot, inclusionFolders)
        cacheFile == CacheFileOf(cacheKey)
        whereCacheFile == WhereFileOf(cacheKey)
        metadataFile == MetadataFileOf(cacheKey)
    IN  IF CacheIsFresh(files, t, cacheFile, metadataFile)
        THEN IF env.store = "read"
             THEN [isNull |-> TRUE, output |-> <<>>,
                   cacheFile |-> <<>>, whereCacheFile |-> <<>>]
             ELSE [isNull |-> FALSE, output |-> ReadText(files, cacheFile),
                   cacheFile |-> cacheFile, whereCacheFile |-> whereCacheFile]
        ELSE [isNull |-> TRUE, output |-> <<>>,
              cacheFile |-> cacheFile, whereCacheFile |-> whereCacheFile]

\* saveReconcileResultsToCache(..., isAppend = false), the only way it is called
\* (a write that throws is caught at lines 250-252: nothing is saved)
saveReconcileResultsToCache(files, t, tempText, cacheFile, clientRoot, inclusionFolders, env) ==
    LET metadataFile == MetadataFileOf(getCacheKey(clientRoot, inclusionFolders))
        metadata == JsonFile(t, clientRoot, inclusionFolders, inclusionFolders)
    IN  IF env.store = "write" THEN files
        ELSE writeFile(writeFile(files, cacheFile, TextFile(tempText)), metadataFile, metadata)

\* sanitizePathForP4Command
IndexOf(s, c) == IF \E i \in 1..Len(s) : s[i] = c
                 THEN CHOOSE i \in 1..Len(s) : s[i] = c /\ \A j \in 1..(i-1) : s[j] # c
                 ELSE 0
sanitizePathForP4Command(folderPath) ==
    LET q  == IndexOf(folderPath, "?")
        p1 == IF q > 1 THEN SubSeq(folderPath, 1, q - 1) ELSE folderPath
        p2 == IF p1 # <<>> /\ p1[Len(p1)] \in {"/", "\\"}
              THEN SubSeq(p1, 1, Len(p1) - 1) ELSE p1
        hasColonBackslash == \E i \in 1..(Len(p2) - 1) : p2[i] = ":" /\ p2[i+1] = "\\"
    IN  IF hasColonBackslash THEN ReplaceAll(p2, {"/"}, "\\") ELSE p2

(***************************************************************************)
(* Path mapping (p4 -ztag where).  A block of the output is modelled by    *)
(* the three values its lines carry.                                       *)
(***************************************************************************)
\* String.prototype.replace("...", ""): the first "..." is removed
RemoveDots(s) ==
    LET i == IndexOf(s, "...")
    IN  IF i = 0 THEN s ELSE SubSeq(s, 1, i - 1) \o Drop(s, i)

\* String.prototype.replace("/", "\\"): the first "/" only
ReplaceFirstSlash(s) ==
    LET i == IndexOf(s, "/")
    IN  IF i = 0 THEN s ELSE [s EXCEPT ![i] = "\\"]

\* pathMap[depotPath] = {...}: a new key goes last, an old key keeps its place
PathMapPut(pathMap, entry) ==
    IF \E i \in 1..Len(pathMap) : pathMap[i].key = entry.key
    THEN [i \in 1..Len(pathMap) |-> IF pathMap[i].key = entry.key THEN entry ELSE pathMap[i]]
    ELSE Append(pathMap, entry)

RECURSIVE BuildPathMap(_, _)
BuildPathMap(fileInfos, pathMap) ==
    IF fileInfos = <<>> THEN pathMap
    ELSE LET b == Head(fileInfos)
             depotPath == RemoveDots(b.depotFile)
             clientPath == RemoveDots(b.clientFile)
             localPath == RemoveDots(b.path)
             entry == [key |-> depotPath,
                       clientFile |-> clientPath,
                       localFile |-> IF localPath # <<>> THEN localPath ELSE clientPath]
         IN  BuildPathMap(Tail(fileInfos),
                          IF depotPath # <<>> THEN PathMapPut(pathMap, entry) ELSE pathMap)

\* Object.keys(pathMap).find((key) => file.depotFile.startsWith(key)): index of
\* the first key, in insertion order, that is a prefix; 0 if there is none
MatchingDepotFile(pathMap, depotFile) ==
    IF \E i \in 1..Len(pathMap) : StartsWith(depotFile, pathMap[i].key)
    THEN CHOOSE i \in 1..Len(pathMap) :
            /\ StartsWith(depotFile, pathMap[i].key)
            /\ \A j \in 1..(i-1) : ~StartsWith(depotFile, pathMap[j].key)
    ELSE 0

ResolveFile(pathMap, file) ==
    LET m == MatchingDepotFile(pathMap, file.depotFile)
    IN  IF m = 0 THEN file
        ELSE LET rest == Drop(file.depotFile, Len(pathMap[m].key))
             IN  [file EXCEPT !.clientFile = pathMap[m].clientFile \o rest,
                              !.localFile = ReplaceFirstSlash(pathMap[m].localFile \o rest)]

ResolvePaths(files, whereBlocks) ==
    LET pathMap == BuildPathMap(whereBlocks, <<>>)
    IN  [i \in 1..Len(files) |-> ResolveFile(pathMap, files[i])]

\* transformedFiles
TransformFile(file) ==
    [localPath |-> file.localFile, localFile |-> file.localFile,
     depotPath |-> file.depotFile, status |-> file.status, action |-> file.type]

(***************************************************************************)
(* The handler GET /api/p4/files/modified.                                 *)
(*   files : the cache directory      t : Date.now()                       *)
(*   d     : the workspace (scan output per unit, existing folders, view)  *)
(*   r     : the request              env : what fails during this request *)
(***************************************************************************)
DefaultMaxFiles == 1000

\* parseInt(url.searchParams.get("maxFiles") || "1000", 10)
MaxFilesOf(r) == IF r.maxFiles = <<>> THEN DefaultMaxFiles ELSE r.maxFiles[1]

\* logDetailedP4Command: the unit and the status field of the entry
\* ("started" for the entry pushed before the subprocess runs)
LogEntry(unit, status) == [folder |-> unit, status |-> status]

\* what a failed "cmd > tempFile" leaves in tempFile: nothing, or the output
\* up to and including its first line break
PartialOutput(text, env) ==
    IF env.partial /\ IndexOf(text, "\n") > 0 THEN SubSeq(text, 1, IndexOf(text, "\n")) ELSE <<>>

\* lines 529-538: append to a cache file that has content, else create it
AppendFolderOutput(files, cacheFile, folderOutput) ==
    IF existsSync(files, cacheFile) /\ files[cacheFile] # TextFile(<<>>)
    THEN writeFile(files, cacheFile, TextFile(ReadText(files, cacheFile) \o folderOutput))
    ELSE writeFile(files, cacheFile, TextFile(folderOutput))

\* Array.from(new Set([...existingFolders, folderPath]))
AddFolder(existingFolders, folderPath) ==
    IF \E i \in 1..Len(existingFolders) : existingFolders[i] = folderPath
    THEN existingFolders
    ELSE Append(existingFolders, folderPath)

\* mutant: the timestamp is reset at every append
FolderMetadata_Restamped(files, t, metadataFile, folderPath, r) ==
    IF existsSync(files, metadataFile) /\ ParsesAsJson(files, metadataFile)
    THEN JsonFile(t, r.clientRoot, r.inclusionFolders,
                  AddFolder(files[metadataFile].processedFolders, folderPath))
    ELSE JsonFile(t, r.clientRoot, r.inclusionFolders, <<folderPath>>)

\* lines 540-569: metadata keeps the timestamp of a readable metadata file
FolderMetadata(files, t, metadataFile, folderPath, r) ==
    IF existsSync(files, metadataFile) /\ ParsesAsJson(files, metadataFile)
    THEN JsonFile(IF files[metadataFile].timestamp # 0 THEN files[metadataFile].timestamp
                  ELSE t,
                  r.clientRoot, r.inclusionFolders,
                  AddFolder(files[metadataFile].processedFolders, folderPath))
    ELSE JsonFile(t, r.clientRoot, r.inclusionFolders, <<folderPath>>)

WriteFolderMetadata(files, t, metadataFile, folderPath, r) ==
    writeFile(files, metadataFile, FolderMetadata(files, t, metadataFile, folderPath, r))

\* lines 528-570: the folder's output goes to the cache file and the metadata
AppendFolderToCache(files, t, cacheFile, folderPath, folderOutput, r) ==
    WriteFolderMetadata(AppendFolderOutput(files, cacheFile, folderOutput), t,
                        MetadataFileOf(getCacheKey(r.clientRoot, r.inclusionFolders)),
                        folderPath, r)

\* mutant: every folder is taken to exist
FolderExists_Always(d, reconcilePath) == TRUE

\* fs.existsSync(reconcilePath)
FolderExists(d, reconcilePath) == reconcilePath \in d.exists

\* what "p4 reconcile -n <unit>\\... > file" writes (nothing for a path p4 finds no
\* differences under)
ScanOutput(d, unit) == IF unit \in DOMAIN d.out THEN d.out[unit] ELSE <<>>

\* lines 502-570: the folder's scan succeeded with folderOutput
\* (a cache write that throws, lines 529-569, ends in the catch of lines 578-590)
FolderScanned(st, folderPath, reconcilePath, folderOutput, t, r, env, cacheFile) ==
    [files |-> IF cacheFile # <<>> /\ env.store # "write"
               THEN AppendFolderToCache(st.files, t, cacheFile, folderPath, folderOutput, r)
               ELSE st.files,
     combinedOutput |-> st.combinedOutput \o folderOutput \o <<"\n">>,
     commandLogs |-> st.commandLogs \o <<LogEntry(reconcilePath, "started"),
                                         LogEntry(reconcilePath, "success")>>
                        \o (IF cacheFile # <<>> /\ env.store = "write"
                            THEN <<LogEntry(folderPath, "error")>> ELSE <<>>),
     spawned |-> Append(st.spawned, reconcilePath)]

\* mutant: a failed scan is taken for a completed one
FolderStepAt_FailureUnnoticed(st, folderPath, reconcilePath, t, d, r, env, cacheFile) ==
    IF ~FolderExists(d, reconcilePath)
    THEN [st EXCEPT !.commandLogs = Append(@, LogEntry(reconcilePath, "skipped"))]
    ELSE FolderScanned(st, folderPath, reconcilePath, ScanOutput(d, reconcilePath),
                       t, r, env, cacheFile)

\* one iteration of "for (const folderPath of inclusionFolders)"
\* st = [files, combinedOutput, commandLogs, spawned]
FolderStepAt(st, folderPath, reconcilePath, t, d, r, env, cacheFile) ==
    IF ~FolderExists(d, reconcilePath)
    THEN [st EXCEPT !.commandLogs = Append(@, LogEntry(reconcilePath, "skipped"))]
    ELSE IF reconcilePath \in env.fail
    THEN [st EXCEPT !.commandLogs = @ \o <<LogEntry(reconcilePath, "started"),
                                            LogEntry(folderPath, "error")>>,
                    !.spawned = Append(@, reconcilePath)]
    ELSE FolderScanned(st, folderPath, reconcilePath, ScanOutput(d, reconcilePath),
                       t, r, env, cacheFile)

FolderStep(st, folderPath, t, d, r, env, cacheFile) ==
    FolderStepAt(st, folderPath, sanitizePathForP4Command(folderPath), t, d, r, env, cacheFile)

RECURSIVE ScanFolders(_, _, _, _, _, _, _)
ScanFolders(st, folders, t, d, r, env, cacheFile) ==
    IF folders = <<>> THEN st
    ELSE ScanFolders(FolderStep(st, Head(folders), t, d, r, env, cacheFile),
                     Tail(folders), t, d, r, env, cacheFile)

\* lines 453-456: create the cache file if there is none (or on forceRefresh)
ClearCacheFile(files, r, cacheFile) ==
    IF cacheFile # <<>> /\ (~existsSync(files, cacheFile) \/ r.forceRefresh)
    THEN writeFile(files, cacheFile, TextFile(<<>>)) ELSE files

\* the writeFileSync of line 455 throws: the catch of lines 595-648 finds no
\* tempFile and answers 500
ClearThrows(files, r, env, cacheFile) ==
    /\ cacheFile # <<>> /\ (~existsSync(files, cacheFile) \/ r.forceRefresh)
    /\ env.store = "write"

\* output = combinedOutput
FoldersResult(st) ==
    [files |-> st.files, failed |-> FALSE, output |-> st.combinedOutput,
     commandLogs |-> st.commandLogs, spawned |-> st.spawned, fromCache |-> FALSE]

\* lines 450-593: the per-folder scan
ScanInclusionFolders(files, t, d, r, env, cacheFile) ==
    IF ClearThrows(files, r, env, cacheFile)
    THEN [files |-> files, failed |-> TRUE, output |-> <<>>, commandLogs |-> <<>>,
          spawned |-> <<>>, fromCache |-> FALSE]
    ELSE
    FoldersResult(ScanFolders([files |-> ClearCacheFile(files, r, cacheFile),
                               combinedOutput |-> <<>>, commandLogs |-> <<>>,
                               spawned |-> <<>>],
                              r.inclusionFolders, t, d, r, env, cacheFile))

\* mutant: what a failed scan wrote is thrown away
ClientRootFailed_PartialDiscarded(files, unit, partialOutput) ==
    [files |-> files, failed |-> TRUE, output |-> <<>>,
     commandLogs |-> <<LogEntry(unit, "started")>>,
     spawned |-> <<unit>>, fromCache |-> FALSE]

\* lines 595-648: the scan threw; what is in tempFile decides
ClientRootFailed(files, unit, partialOutput) ==
    [files |-> files,
     failed |-> (partialOutput = <<>> \/ Trim(partialOutput) = <<>>),
     output |-> IF Trim(partialOutput) # <<>> THEN partialOutput ELSE <<>>,
     commandLogs |-> <<LogEntry(unit, "started")>>,
     spawned |-> <<unit>>, fromCache |-> FALSE]

\* mutant: a scan that prints nothing is taken for a failed one
ClientRootScanned_EmptyIsFailure(files, t, r, env, unit, text, cacheFile) ==
    [files |-> files, failed |-> (text = <<>>), output |-> text,
     commandLogs |-> <<LogEntry(unit, "started"), LogEntry(unit, "success")>>,
     spawned |-> <<unit>>, fromCache |-> FALSE]

\* lines 404-448: the scan succeeded with text
ClientRootScanned(files, t, r, env, unit, text, cacheFile) ==
    [files |-> IF cacheFile # <<>>
               THEN saveReconcileResultsToCache(files, t, text, cacheFile,
                                                r.clientRoot, r.inclusionFolders, env)
               ELSE files,
     failed |-> FALSE, output |-> text,
     commandLogs |-> <<LogEntry(unit, "started"), LogEntry(unit, "success")>>,
     spawned |-> <<unit>>, fromCache |-> FALSE]

\* mutant: the partial output of a failed scan is cached like a complete one
ScanClientRoot_PartialCached(files, t, d, r, env, cacheFile) ==
    IF r.clientRoot \in env.fail \/ r.clientRoot \notin DOMAIN d.out
    THEN IF Trim(PartialOutput(ScanOutput(d, r.clientRoot), env)) # <<>>
         THEN ClientRootScanned(files, t, r, env, r.clientRoot,
                                PartialOutput(ScanOutput(d, r.clientRoot), env), cacheFile)
         ELSE ClientRootFailed(files, r.clientRoot, <<>>)
    ELSE ClientRootScanned(files, t, r, env, r.clientRoot, ScanOutput(d, r.clientRoot),
                           cacheFile)

\* lines 404-448 and the catch of lines 595-648: the whole-workspace scan
ScanClientRoot(files, t, d, r, env, cacheFile) ==
    IF r.clientRoot \in env.fail \/ r.clientRoot \notin DOMAIN d.out
    THEN ClientRootFailed(files, r.clientRoot, PartialOutput(ScanOutput(d, r.clientRoot), env))
    ELSE ClientRootScanned(files, t, r, env, r.clientRoot, ScanOutput(d, r.clientRoot),
                           cacheFile)

ErrorResponse(status, commandLogs, spawned) ==
    [status |-> status, success |-> FALSE, files |-> <<>>, limitApplied |-> FALSE,
     totalFiles |-> 0, fromCache |-> FALSE, cacheTime |-> 0,
     commandLogs |-> commandLogs, spawned |-> spawned, output |-> <<>>]

\* const originalLineCount = output.split("\n").length;
\* const limitApplied = originalLineCount > files.length;
LimitApplied(output, files) == Len(SplitOn(output, "\n")) > Len(files)

\* if (fromCache && fs.existsSync(whereCacheFile)) and the content read is truthy
CachedWhereUsable(files, fromCache, whereCacheFile) ==
    /\ fromCache
    /\ existsSync(files, whereCacheFile)
    /\ files[whereCacheFile] \notin {WhereFile(<<>>), TextFile(<<>>)}

\* whereOutput.split("... depotFile").slice(1)
WhereBlocks(files, d, cachedUsable, whereCacheFile) ==
    IF cachedUsable
    THEN IF files[whereCacheFile].kind = "where" THEN files[whereCacheFile].blocks ELSE <<>>
    ELSE d.view

\* mutant: a failed where command loses the records
WhereStepWith_RecordsLost(files, parsed, d, env, fromCache, whereCacheFile, cachedUsable) ==
    IF parsed = <<>> \/ (~cachedUsable /\ env.whereFails)
    THEN [files |-> files, out |-> <<>>]
    ELSE [files |-> IF ~cachedUsable /\ fromCache /\ whereCacheFile # <<>>
                       /\ env.store # "write"
                    THEN writeFile(files, whereCacheFile, WhereFile(d.view))
                    ELSE files,
          out |-> ResolvePaths(parsed, WhereBlocks(files, d, cachedUsable, whereCacheFile))]

\* lines 655-754: the where step.  Returns the files and the cache directory.
WhereStepWith(files, parsed, d, env, fromCache, whereCacheFile, cachedUsable) ==
    IF parsed = <<>> \/ (~cachedUsable /\ env.whereFails)
    THEN [files |-> files, out |-> parsed]
    ELSE [files |-> IF ~cachedUsable /\ fromCache /\ whereCacheFile # <<>>
                       /\ env.store # "write"
                    THEN writeFile(files, whereCacheFile, WhereFile(d.view))
                    ELSE files,
          out |-> ResolvePaths(parsed, WhereBlocks(files, d, cachedUsable, whereCacheFile))]

WhereStep(files, parsed, d, env, fromCache, whereCacheFile) ==
    WhereStepWith(files, parsed, d, env, fromCache, whereCacheFile,
                  CachedWhereUsable(files, fromCache, whereCacheFile))

\* lines 765-792: the success response
BuildResponse(t, output, fromCache, commandLogs, spawned, w) ==
    [fs |-> w.files,
     resp |-> [status |-> 200, success |-> TRUE,
               files |-> [i \in 1..Len(w.out) |-> TransformFile(w.out[i])],
               limitApplied |-> LimitApplied(output, w.out),
               totalFiles |-> Len(w.out),
               fromCache |-> fromCache,
               cacheTime |-> IF fromCache THEN t ELSE 0,
               commandLogs |-> commandLogs, spawned |-> spawned, output |-> output]]

\* lines 651-792: parse, map the paths, respond
Respond(files, t, d, r, env, output, fromCache, whereCacheFile, commandLogs, spawned) ==
    BuildResponse(t, output, fromCache, commandLogs, spawned,
                  WhereStep(files, parseP4ReconcileOutput(output, MaxFilesOf(r)), d, env,
                            fromCache, whereCacheFile))

\* lines 384-398: no lookup at all on forceRefresh (cacheFile stays "")
Lookup(files, t, r, env) ==
    IF r.forceRefresh
    THEN [isNull |-> TRUE, output |-> <<>>, cacheFile |-> <<>>, whereCacheFile |-> <<>>]
    ELSE getCachedReconcileResults(files, t, r.clientRoot, r.inclusionFolders, env)

\* lines 400-404: if (!output) scan the client root or the folders
Scan(files, t, d, r, env, cacheFile) ==
    IF Len(r.inclusionFolders) = 0
    THEN ScanClientRoot(files, t, d, r, env, cacheFile)
    ELSE ScanInclusionFolders(files, t, d, r, env, cacheFile)

\* the raw output a response is built from: the cached one (fromCache = !!output)
\* or the scan's
Source(files, t, d, r, env, cached) ==
    IF ~cached.isNull /\ cached.output # <<>>
    THEN [files |-> files, failed |-> FALSE, output |-> cached.output,
          commandLogs |-> <<>>, spawned |-> <<>>, fromCache |-> TRUE]
    ELSE Scan(files, t, d, r, env, cached.cacheFile)

Finish(t, d, r, env, whereCacheFile, src) ==
    IF src.failed
    THEN [fs |-> src.files, resp |-> ErrorResponse(500, src.commandLogs, src.spawned)]
    ELSE Respond(src.files, t, d, r, env, src.output, src.fromCache, whereCacheFile,
                 src.commandLogs, src.spawned)

Serve(files, t, d, r, env, cached) ==
    Finish(t, d, r, env, cached.whereCacheFile, Source(files, t, d, r, env, cached))

\* lines 334-365: the subprocesses run before the client root is checked:
\* "p4 -V" always, "p4 info" when p4 runs and the request carries no clientRoot
ProbesSpawned(r, env) ==
    <<"p4 -V">> \o (IF env.p4 /\ r.clientRoot = <<>> THEN <<"p4 info">> ELSE <<>>)

\* the temporary files of the request still in os.tmpdir() when its response
\* rsp is sent (files is the cache directory the request found):
\*   tempFile (line 380) is removed at lines 756-763 only, which the return of
\*     lines 637-646 does not reach;
\*   a folderTempFile (line 482) is unlinked at lines 572-577, inside the try
\*     that a throw leaves for the catch of lines 578-590;
\*   depotPathsFile (lines 673-674) is unlinked at lines 705-709, which a throw
\*     of the where command (lines 684-689) skips.
TempFilesLeft(files, r, env, rsp) ==
    (IF rsp.status = 500 /\ r.inclusionFolders = <<>> /\ rsp.spawned # <<>>
     THEN {<<"tempFile">>} ELSE {})
    \cup {<<"folderTempFile", rsp.commandLogs[i].folder>> :
            i \in {j \in 1..Len(rsp.commandLogs) : rsp.commandLogs[j].status = "error"}}
    \cup (IF /\ rsp.status = 200 /\ rsp.files # <<>> /\ env.whereFails
             /\ ~CachedWhereUsable(files, rsp.fromCache,
                                   WhereFileOf(getCacheKey(r.clientRoot, r.inclusionFolders)))
          THEN {<<"depotPathsFile">>} ELSE {})

\* lines 334-376: p4 must run and a client root must be known
GETWithRoot(files, t, d, r, env) ==
    IF ~env.p4 THEN [fs |-> files, resp |-> ErrorResponse(500, <<>>, <<>>)]
    ELSE IF r.clientRoot = <<>> THEN [fs |-> files, resp |-> ErrorResponse(400, <<>>, <<>>)]
    ELSE Serve(files, t, d, r, env, Lookup(files, t, r, env))

\* lines 350-365: a request without clientRoot takes it from "p4 info"
ResolveRoot(r, env) == IF r.clientRoot = <<>> THEN [r EXCEPT !.clientRoot = env.info] ELSE r

\* the handler: the cache directory it leaves and the response it sends
GET(files, t, d, r, env) == GETWithRoot(files, t, d, ResolveRoot(r, env), env)

(***************************************************************************)
(* The workspaces, requests and failures explored.                         *)
(***************************************************************************)
MaxReq   == 2     \* requests per behaviour
MaxTicks == 1     \* clock ticks per behaviour
TickMs   == 61 * 60 * 1000     \* a tick makes every entry older than the expiry
\* Date.now() when the server starts; any value above CACHE_EXPIRY_MS behaves alike
StartTime == 3 * CACHE_EXPIRY_MS

Root    == <<"c", ":", "/", "w">>
FolderA == Root \o <<"/", "a">>
FolderB == Root \o <<"/", "b">>
FolderM == Root \o <<"/", "m">>     \* never exists on disk

\* the same paths spelled otherwise, and a folder given relative to the server's
\* working directory
RootUp    == <<"C", ":", "/", "W">>
RootBs    == <<"c", ":", "\\", "w">>
FolderAUp == Root \o <<"/", "A">>
FolderABs == RootBs \o <<"\\", "a">>
FolderRel == <<"a">>

PathA   == <<"//", "depot", "/", "a.txt">>
PathB   == <<"//", "depot", "/", "b.txt">>
PathSub == <<"//", "depot", "/", "sub", "/", "f.txt">>
NL      == <<"\n">>
LineA   == <<"reconcile", " ", "edit", " ">> \o PathA \o <<"#1">>
LineB   == <<"reconcile", " ", "add", " ">> \o PathB
LineSub == PathSub \o <<"#2", " ", "-", " ", "opened", " ", "for", " ", "ADD">>
LineBad == <<"junk", " ", "junk">>

\* the lines of the client view as p4 -ztag where prints them
ViewDepot == [depotFile |-> <<"//", "depot", "/", "...">>,
              clientFile |-> <<"//", "ws", "/", "...">>,
              path |-> <<"/", "local", "/", "...">>]
ViewSub   == [depotFile |-> <<"//", "depot", "/", "sub", "/", "...">>,
              clientFile |-> <<"//", "ws", "/", "sub2", "/", "...">>,
              path |-> <<"/", "local", "/", "sub2", "/", "...">>]

DiskStates == <<
    [out |-> [u \in {Root, RootUp, RootBs} |->
                    LineA \o NL \o LineBad \o NL \o LineSub \o NL \o LineB \o NL] @@
             [u \in {FolderA, FolderAUp, FolderABs} |-> LineA \o NL] @@
             (FolderB :> (LineB \o NL \o LineSub \o NL)) @@
             (FolderRel :> (LineB \o NL)),
     exists |-> {FolderA, FolderB, FolderAUp, FolderABs, FolderRel},
     view |-> <<ViewDepot, ViewSub>>],
    [out |-> (Root :> <<>>) @@ (FolderA :> LineA) @@ (FolderB :> <<>>),
     exists |-> {FolderA, FolderB},
     view |-> <<ViewSub>>]
>>

FolderLists == {<<>>, <<FolderA>>, <<FolderB>>, <<FolderA, FolderB>>, <<FolderM, FolderB>>}

Requests ==
    [clientRoot : {Root}, inclusionFolders : FolderLists,
     maxFiles : {<<>>, <<2>>}, forceRefresh : BOOLEAN]

\* store: the file operation on the cache directory that throws during the
\* request: none ("ok"), reading the cache file ("read"), any write ("write")
OkEnv == [p4 |-> TRUE, info |-> Root, fail |-> {}, partial |-> FALSE, whereFails |-> FALSE,
          store |-> "ok"]
Envs == {OkEnv,
         [OkEnv EXCEPT !.p4 = FALSE],
         [OkEnv EXCEPT !.whereFails = TRUE],
         [OkEnv EXCEPT !.fail = {FolderA}],
         [OkEnv EXCEPT !.fail = {FolderB}],
         [OkEnv EXCEPT !.fail = {Root}],
         [OkEnv EXCEPT !.fail = {Root}, !.partial = TRUE]}

\* the scan units of a request, and the failures that can touch it
UnitsOf(r) == IF r.inclusionFolders = <<>> THEN {r.clientRoot}
              ELSE {r.inclusionFolders[i] : i \in 1..Len(r.inclusionFolders)}
EnvsFor(r) == {env \in Envs : env.fail \subseteq UnitsOf(r)}

\* the cache directory survives restarts: what an earlier server process may
\* have left for the whole-workspace scope of Root
OldText == LineB \o NL
RootKey == getCacheKey(Root, <<>>)
OldEntry(ts) == (CacheFileOf(RootKey) :> TextFile(OldText)) @@
                (MetadataFileOf(RootKey) :> JsonFile(ts, Root, <<>>, <<>>))
EmptyDir == [f \in {} |-> TextFile(<<>>)]
InitialDirs == {EmptyDir, OldEntry(StartTime - 1000)}

\* lookup harness: every condition an entry can be found in, for a
\* whole-workspace scope and for a folder scope
EntryOf(key, text, meta) == (CacheFileOf(key) :> TextFile(text)) @@ meta
MetadataStates(key, root, folders) ==
    {(MetadataFileOf(key) :> JsonFile(ts, root, folders, folders)) :
        ts \in {StartTime - 1000, StartTime - CACHE_EXPIRY_MS + 1, StartTime - CACHE_EXPIRY_MS,
                StartTime - CACHE_EXPIRY_MS - 1, StartTime - 2 * CACHE_EXPIRY_MS, 0}}
    \cup {EmptyDir, (MetadataFileOf(key) :> TextFile(<<"{">>))}
LookupDirs ==
    {EmptyDir}
    \cup {EntryOf(RootKey, OldText, m) : m \in MetadataStates(RootKey, Root, <<>>)}
    \cup {EntryOf(getCacheKey(Root, <<FolderA>>), OldText, m) :
            m \in MetadataStates(getCacheKey(Root, <<FolderA>>), Root, <<FolderA>>)}
    \cup {(MetadataFileOf(RootKey) :> JsonFile(StartTime - 1000, Root, <<>>, <<>>))}

NoReq == [clientRoot |-> <<>>, inclusionFolders |-> <<>>, maxFiles |-> <<>>,
          forceRefresh |-> FALSE]
NoEnv == [OkEnv EXCEPT !.p4 = FALSE]

(***************************************************************************)
(* The state machine.  Requests are served one at a time: a request runs   *)
(* from start to finish (Request), its response is sent (Deliver), and     *)
(* only then does time pass or the next request start.                     *)
(***************************************************************************)
NoResponse == ErrorResponse(0, <<>>, <<>>)

HarnessIdle ==
    /\ pin = [lines |-> <<>>, finalNL |-> FALSE]
    /\ pmax = 0
    /\ pout = [done |-> FALSE, files |-> <<>>, resp |-> NoResponse]

\* the page has logged no command yet
LoggerIdle ==
    /\ tempCommand = <<>>
    /\ existingLogs = <<>>
    /\ passed = {}

Idle == resp = NoResponse
Responded == ~Idle

Init ==
    /\ fs \in InitialDirs
    /\ now = StartTime
    /\ disk \in 1..Len(DiskStates)
    /\ nreq = 0
    /\ req = [r |-> NoReq, env |-> NoEnv, before |-> EmptyDir]
    /\ resp = NoResponse
    /\ LoggerIdle
    /\ HarnessIdle

\* one request, served from start to finish
Request(r, env) ==
    /\ Idle
    /\ nreq < MaxReq
    /\ \E g \in {GET(fs, now, DiskStates[disk], r, env)} :
           /\ fs' = g.fs
           /\ resp' = g.resp
    /\ req' = [r |-> r, env |-> env, before |-> fs]
    /\ nreq' = nreq + 1
    /\ UNCHANGED <<now, disk, pin, pmax, pout, tempCommand, existingLogs, passed>>

\* the response has been sent
Deliver ==
    /\ Responded
    /\ resp' = NoResponse
    /\ req' = [r |-> NoReq, env |-> NoEnv, before |-> EmptyDir]
    /\ UNCHANGED <<fs, now, disk, nreq, pin, pmax, pout, tempCommand, existingLogs, passed>>

\* time passes
Tick ==
    /\ Idle
    /\ now < StartTime + MaxTicks * TickMs
    /\ now' = now + TickMs
    /\ UNCHANGED <<fs, disk, nreq, req, resp, pin, pmax, pout, tempCommand, existingLogs, passed>>

Next ==
    \/ \E r \in Requests : \E env \in EnvsFor(r) : Request(r, env)
    \/ Deliver
    \/ Tick

Spec == Init /\ [][Next]_vars

(***************************************************************************)
(* Lookup harness: one request against every condition of the cache entry. *)
(***************************************************************************)
InitLookup ==
    /\ fs \in LookupDirs
    /\ now = StartTime
    /\ disk \in 1..Len(DiskStates)
    /\ nreq = 0
    /\ req = [r |-> NoReq, env |-> NoEnv, before |-> EmptyDir]
    /\ resp = NoResponse
    /\ LoggerIdle
    /\ HarnessIdle

NextLookup ==
    \/ \E r \in Requests : \E env \in EnvsFor(r) : nreq = 0 /\ Request(r, env)
    \/ Deliver

SpecLookup == InitLookup /\ [][NextLookup]_vars

(***************************************************************************)
(* Parser harness: parseP4ReconcileOutput and the response built from a    *)
(* raw output, for every raw output made of at most MaxLines lines.        *)
(***************************************************************************)
MaxLines == 3

\* parseInt of a maxFiles parameter that is no number is NaN, and the handler
\* uses maxFiles in "maxFiles > 0" only, which is false for NaN: NaN stands
\* below every number a request can carry
NaN == -1000

\* the lines p4 may print: shape, the action and path they carry, their text
LineKinds == <<
    [shape |-> "reconcile", action |-> <<"edit">>, path |-> PathA, text |-> LineA],
    [shape |-> "opened", action |-> <<"add">>, path |-> PathSub, text |-> LineSub],
    [shape |-> "reconcile", action |-> <<"add">>, path |-> PathB, text |-> LineB],
    [shape |-> "reconcile", action |-> <<"add">>, path |-> PathB,
     text |-> <<"junk", " ">> \o LineB],
    [shape |-> "none", action |-> <<>>, path |-> <<>>, text |-> LineBad],
    [shape |-> "none", action |-> <<>>, path |-> <<>>, text |-> <<>>]
>>

\* the raw output of a run that printed the lines ks, with or without a final "\n"
RawOutput(ks, finalNL) ==
    Join([i \in 1..Len(ks) |-> LineKinds[ks[i]].text], NL)
        \o (IF finalNL /\ ks # <<>> THEN NL ELSE <<>>)

HarnessRequest(maxFiles) ==
    [clientRoot |-> Root, inclusionFolders |-> <<>>, maxFiles |-> <<maxFiles>>,
     forceRefresh |-> FALSE]

InitParse ==
    /\ pin \in [lines : UNION {[1..n -> 1..Len(LineKinds)] : n \in 0..MaxLines},
                finalNL : BOOLEAN]
    /\ pmax \in {NaN} \cup -1..MaxLines
    /\ pout = [done |-> FALSE, files |-> <<>>, resp |-> NoResponse]
    /\ fs = EmptyDir
    /\ now = StartTime
    /\ disk = 1
    /\ nreq = 0
    /\ req = [r |-> NoReq, env |-> NoEnv, before |-> EmptyDir]
    /\ resp = NoResponse
    /\ LoggerIdle

\* the raw output is parsed (line 652) and the response is built (lines 655-792)
ParseStep ==
    /\ ~pout.done
    /\ \E output \in {RawOutput(pin.lines, pin.finalNL)} :
           pout' = [done |-> TRUE,
                    files |-> parseP4ReconcileOutput(output, pmax),
                    resp |-> Respond(EmptyDir, now, DiskStates[disk], HarnessRequest(pmax),
                                     OkEnv, output, FALSE, <<>>, <<>>, <<>>).resp]
    /\ UNCHANGED <<fs, now, disk, nreq, req, resp, pin, pmax, tempCommand, existingLogs,
                   passed>>

SpecParse == InitParse /\ [][ParseStep]_vars

(***************************************************************************)
(* Scope harness: two requests whose scopes are spelled differently (letter *)
(* case, separators, a folder given as part of the root, no root at all).  *)
(***************************************************************************)
ScopeRequests ==
    [clientRoot : {Root, RootUp, RootBs, FolderA, <<>>},
     inclusionFolders : {<<>>, <<FolderRel>>, <<FolderA>>, <<FolderAUp>>, <<FolderABs>>},
     maxFiles : {<<>>}, forceRefresh : {FALSE}]

\* a request without clientRoot depends on p4 and on what "p4 info" prints
ScopeEnvs(r) == IF r.clientRoot = <<>> THEN {OkEnv, [OkEnv EXCEPT !.info = <<>>], NoEnv}
                ELSE {OkEnv}

InitScopes ==
    /\ fs = EmptyDir
    /\ now = StartTime
    /\ disk = 1
    /\ nreq = 0
    /\ req = [r |-> NoReq, env |-> NoEnv, before |-> EmptyDir]
    /\ resp = NoResponse
    /\ LoggerIdle
    /\ HarnessIdle

NextScopes ==
    \/ \E r \in ScopeRequests : \E env \in ScopeEnvs(r) : Request(r, env)
    \/ Deliver

SpecScopes == InitScopes /\ [][NextScopes]_vars

(***************************************************************************)
(* Store harness: one request during which reads of the cache file, or     *)
(* writes to the cache directory, throw; against every condition of the    *)
(* cache entry.                                                            *)
(***************************************************************************)
StoreEnvs == {[OkEnv EXCEPT !.store = "read"], [OkEnv EXCEPT !.store = "write"]}

NextStore ==
    \/ \E r \in Requests : \E env \in StoreEnvs : nreq = 0 /\ Request(r, env)
    \/ Deliver

SpecStore == InitLookup /\ [][NextStore]_vars

(***************************************************************************)
(* The command log of the page: lib/p4CommandLogger.ts, the loop over the  *)
(* response's commandLogs in fetchModifiedFiles (app/page.tsx) and         *)
(* P4Service.logCommand.  A callback of the browser runs to completion     *)
(* before the next one starts.                                             *)
(***************************************************************************)
MAX_COMMAND_LOGS == 100

\* P4Service.logCommand: newest first, at most MAX_COMMAND_LOGS entries
logCommand(logs, command) == Take(<<command>> \o logs, MAX_COMMAND_LOGS)

\* localStorage.setItem(P4_TEMP_COMMAND_KEY, ...) replaces what the item held
logP4CommandFromAPI(temp, command) == <<command>>

\* data.commandLogs.forEach(log => logP4CommandFromAPI(log.command))
RECURSIVE LogEach(_, _)
LogEach(temp, commands) ==
    IF commands = <<>> THEN temp
    ELSE LogEach(logP4CommandFromAPI(temp, Head(commands)), Tail(commands))

\* log.command.includes('COMPLETED') || log.status === 'error' || log.status === 'skipped'
\* (the entries of status "success" are those whose text ends in COMPLETED)
IsLogged(log) == log.status \in {"success", "error", "skipped"}

\* the responses that carry a commandLogs array: all but those of
\* route.ts:340-347 (p4 not available) and 368-375 (no client root)
HasCommandLogs(rsp, env) == env.p4 /\ rsp.status # 400

\* the commands the page passes to logP4CommandFromAPI for the response to
\* request number n; the text of a command names the folder and the outcome
\* and carries the times of the run
CommandsOf(rsp, env, n) ==
    IF HasCommandLogs(rsp, env)
    THEN [i \in 1..Len(SelectSeq(rsp.commandLogs, IsLogged)) |->
             [command |-> SelectSeq(rsp.commandLogs, IsLogged)[i], request |-> n]]
    ELSE <<[command |-> [folder |-> <<>>, status |-> "reconcile"], request |-> n]>>

\* the page receives the response and logs its commands
fetchModifiedFiles ==
    /\ Responded
    /\ \E commands \in {CommandsOf(resp, req.env, nreq)} :
           /\ tempCommand' = LogEach(tempCommand, commands)
           /\ passed' = passed \cup {commands[i] : i \in 1..Len(commands)}
    /\ resp' = NoResponse
    /\ req' = [r |-> NoReq, env |-> NoEnv, before |-> EmptyDir]
    /\ UNCHANGED <<fs, now, disk, nreq, pin, pmax, pout, existingLogs>>

\* the setInterval callback of initP4CommandLogger
Poll ==
    /\ tempCommand # <<>>
    /\ tempCommand' = <<>>
    /\ existingLogs' = logCommand(existingLogs, tempCommand[1])
    /\ UNCHANGED <<fs, now, disk, nreq, req, resp, pin, pmax, pout, passed>>

LoggerRequests == {r \in Requests : ~r.forceRefresh /\ r.maxFiles = <<>>}

InitLogger ==
    /\ fs = EmptyDir
    /\ now = StartTime
    /\ disk \in 1..Len(DiskStates)
    /\ nreq = 0
    /\ req = [r |-> NoReq, env |-> NoEnv, before |-> EmptyDir]
    /\ resp = NoResponse
    /\ LoggerIdle
    /\ HarnessIdle

NextLogger ==
    \/ \E r \in LoggerRequests : \E env \in EnvsFor(r) : Request(r, env)
    \/ fetchModifiedFiles
    \/ Poll

SpecLogger == InitLogger /\ [][NextLogger]_vars

(***************************************************************************)
(* Properties.                                                             *)
(***************************************************************************)
Disk == DiskStates[disk]
Served == Responded /\ resp.status = 200

\* the response the same server would give right now to request r
Again(r) == GET(fs, now, Disk, r, OkEnv).resp

\* the files of the scope of r in a cache directory
KeyOf(r) == getCacheKey(r.clientRoot, r.inclusionFolders)

\* C1: two back-to-back requests with identical parameters and
\* forceRefresh=false: the second is served from the cache (fromCache=true) and
\* lists the same files as the first.
C1_RepeatedReadIdempotent ==
    (Served /\ ~req.r.forceRefresh /\ req.env = OkEnv)
        => (Again(req.r).fromCache /\ Again(req.r).files = resp.files)

\* the metadata of the scope of r in directory dir is missing, unreadable, or
\* carries a timestamp more than 60 minutes before t
StaleOrUnreadable(dir, r, t) ==
    \/ MetadataFileOf(KeyOf(r)) \notin DOMAIN dir
    \/ dir[MetadataFileOf(KeyOf(r))].kind # "json"
    \/ t - dir[MetadataFileOf(KeyOf(r))].timestamp > 60 * 60 * 1000

\* C2: an entry whose metadata timestamp is more than 60 minutes old, or whose
\* metadata is missing or unreadable, is never served as a hit: the request is
\* answered from a fresh scan.
C2_ExpiredNeverHit ==
    (Responded /\ req.env.p4 /\ ~req.r.forceRefresh
        /\ StaleOrUnreadable(req.before, req.r, now))
        => (~resp.fromCache /\ resp.spawned # <<>>)

C2_Witness ==
    /\ Served /\ ~req.r.forceRefresh
    /\ CacheFileOf(KeyOf(req.r)) \in DOMAIN req.before
    /\ MetadataFileOf(KeyOf(req.r)) \in DOMAIN req.before
    /\ req.before[MetadataFileOf(KeyOf(req.r))].kind = "json"
    /\ now - req.before[MetadataFileOf(KeyOf(req.r))].timestamp > 60 * 60 * 1000
    /\ ~resp.fromCache /\ resp.spawned # <<>>

\* the scope of r has an entry in dir that a lookup at time t would serve
HasValidEntry(dir, r, t) ==
    /\ CacheFileOf(KeyOf(r)) \in DOMAIN dir
    /\ dir[CacheFileOf(KeyOf(r))].kind = "text"
    /\ dir[CacheFileOf(KeyOf(r))].text # <<>>
    /\ ~StaleOrUnreadable(dir, r, t)
    /\ t - dir[MetadataFileOf(KeyOf(r))].timestamp < 60 * 60 * 1000

\* C3: a forced refresh over a valid entry scans afresh and leaves the fresh
\* raw output in the scope's entry, with createdAt the time of that scan.
C3_ForcedRefreshOverwrites ==
    (Served /\ req.r.forceRefresh /\ HasValidEntry(req.before, req.r, now))
        => /\ ~resp.fromCache
           /\ CacheFileOf(KeyOf(req.r)) \in DOMAIN fs
           /\ ParseLines(SplitOn(Trim(fs[CacheFileOf(KeyOf(req.r))].text), "\n"))
                = ParseLines(SplitOn(Trim(resp.output), "\n"))
           /\ fs[MetadataFileOf(KeyOf(req.r))].timestamp = now

\* what one request for folders A and B scans, nothing cached
RequestAB == [clientRoot |-> Root, inclusionFolders |-> <<FolderA, FolderB>>,
              maxFiles |-> <<>>, forceRefresh |-> FALSE]
RequestA  == [RequestAB EXCEPT !.inclusionFolders = <<FolderA>>]
SingleScanAB == Scan(EmptyDir, now, Disk, RequestAB, OkEnv, <<>>).output

\* C4: folder A scanned by one request and folder B by a later one (same root)
\* leave a cache entry whose raw output parses to the records, in order, that
\* one request for {A, B} yields.
C4_IncrementalMerge ==
    (Served /\ req.env = OkEnv /\ ~req.r.forceRefresh /\ ~resp.fromCache
        /\ req.r.clientRoot = Root /\ req.r.inclusionFolders = <<FolderB>>
        /\ HasValidEntry(req.before, RequestA, now)
        /\ req.before[CacheFileOf(KeyOf(RequestA))].text = Disk.out[FolderA])
        => \E f \in DOMAIN fs :
              /\ fs[f].kind = "text"
              /\ ParseLines(SplitOn(Trim(fs[f].text), "\n"))
                    = ParseLines(SplitOn(Trim(SingleScanAB), "\n"))

\* the view lines whose depot prefix is a prefix of depotPath
MatchingBlocks(depotPath) ==
    {i \in 1..Len(Disk.view) : StartsWith(depotPath, RemoveDots(Disk.view[i].depotFile))}
LongestBlock(depotPath) ==
    CHOOSE i \in MatchingBlocks(depotPath) :
        \A j \in MatchingBlocks(depotPath) :
            Len(Disk.view[j].depotFile) <= Len(Disk.view[i].depotFile)
ViaLongestPrefix(depotPath) ==
    ReplaceFirstSlash(RemoveDots(Disk.view[LongestBlock(depotPath)].path)
        \o Drop(depotPath, Len(RemoveDots(Disk.view[LongestBlock(depotPath)].depotFile))))

\* C5: when several keys of the mapping table are prefixes of a record's depot
\* path, the record is resolved through the longest of them.
C5_LongestPrefixWins ==
    (Served /\ req.env = OkEnv)
        => \A i \in 1..Len(resp.files) :
              MatchingBlocks(resp.files[i].depotPath) # {}
                 => resp.files[i].localPath = ViaLongestPrefix(resp.files[i].depotPath)

\* the records the printed lines stand for, line by line
ExpectedRecords(ks) ==
    Flatten([i \in 1..Len(ks) |->
                IF LineKinds[ks[i]].shape = "none" THEN <<>>
                ELSE <<[depotFile |-> LineKinds[ks[i]].path, clientFile |-> <<>>,
                        localFile |-> <<>>, status |-> LineKinds[ks[i]].action,
                        type |-> "text"]>>])
Matchable(ks) == Cardinality({i \in 1..Len(ks) : LineKinds[ks[i]].shape # "none"})

C7_TruncationFlagged ==
    (pout.done /\ pmax > 0 /\ Matchable(pin.lines) > pmax)
        => (pout.resp.limitApplied /\ Len(pout.resp.files) <= pmax)

C7_Witness ==
    /\ pout.done /\ pmax = 2 /\ Matchable(pin.lines) = 3
    /\ pout.resp.limitApplied /\ Len(pout.resp.files) = 2

\* C8: when maxFiles cuts off no line (it is not positive, or the output has
\* at most maxFiles lines) limitApplied is false.
C8_FlagOnlyWhenTruncated ==
    (pout.done /\ (pmax <= 0 \/ Len(pin.lines) <= pmax))
        => ~pout.resp.limitApplied

\* the positions of the requested folders that are not on disk
MissingFolders(r) ==
    {i \in 1..Len(r.inclusionFolders) :
        sanitizePathForP4Command(r.inclusionFolders[i]) \notin Disk.exists}
IsOnDisk(f) == sanitizePathForP4Command(f) \in Disk.exists
WithoutMissing(r) == [r EXCEPT !.inclusionFolders = SelectSeq(@, IsOnDisk)]
InSeq(x, s) == \E j \in 1..Len(s) : s[j] = x

\* C9: a requested folder that is not on disk is skipped: no subprocess for it,
\* a "skipped" log entry, nothing from it in the output, the other folders are
\* still scanned and the request succeeds.
C9_MissingFolderSkipped ==
    (Responded /\ req.env.p4 /\ ~resp.fromCache /\ MissingFolders(req.r) # {})
        => /\ resp.status = 200 /\ resp.success
           /\ \A i \in 1..Len(req.r.inclusionFolders) :
                 IF i \in MissingFolders(req.r)
                 THEN /\ ~InSeq(req.r.inclusionFolders[i], resp.spawned)
                      /\ InSeq([folder |-> req.r.inclusionFolders[i], status |-> "skipped"],
                               resp.commandLogs)
                      /\ \A j \in 1..Len(resp.commandLogs) :
                            resp.commandLogs[j].folder = req.r.inclusionFolders[i]
                               => resp.commandLogs[j].status = "skipped"
                 ELSE InSeq(req.r.inclusionFolders[i], resp.spawned)
           /\ resp.output = Scan(EmptyDir, now, Disk, WithoutMissing(req.r), req.env,
                                 <<>>).output

C9_Witness ==
    /\ Served /\ ~resp.fromCache
    /\ req.r.inclusionFolders = <<FolderM, FolderB>>
    /\ InSeq([folder |-> FolderM, status |-> "skipped"], resp.commandLogs)
    /\ resp.spawned = <<FolderB>>
    /\ resp.files # <<>>

Reverse(s) == [i \in 1..Len(s) |-> s[Len(s) + 1 - i]]

\* C10: the same folders in another order give the same cache key, so the
\* reordered request is served from the entry the first one left.
C10_KeyIgnoresFolderOrder ==
    (Served /\ ~req.r.forceRefresh /\ Len(req.r.inclusionFolders) = 2
        /\ Again(req.r).fromCache)
        => /\ getCacheKey(req.r.clientRoot, Reverse(req.r.inclusionFolders)) = KeyOf(req.r)
           /\ Again([req.r EXCEPT !.inclusionFolders = Reverse(@)]).fromCache

\* a path with separators and letter case normalized
NormPath(p) == [i \in 1..Len(p) |-> LowerChar(IF p[i] = "\\" THEN "/" ELSE p[i])]
SameScope(root1, folders1, root2, folders2) ==
    /\ NormPath(root1) = NormPath(root2)
    /\ {NormPath(folders1[i]) : i \in 1..Len(folders1)}
          = {NormPath(folders2[i]) : i \in 1..Len(folders2)}

\* the request as served: clientRoot taken from "p4 info" if none was given
Resolved == ResolveRoot(req.r, req.env)

\* C11: a lookup for scope S returns only output written by a scan of exactly
\* scope S: the entry a hit is served from was written for the same root and
\* the same folder set (after normalization).
C11_HitOnlyOwnScope ==
    (Served /\ resp.fromCache)
        => SameScope(req.before[MetadataFileOf(KeyOf(Resolved))].clientRoot,
                     req.before[MetadataFileOf(KeyOf(Resolved))].inclusionFolders,
                     Resolved.clientRoot, Resolved.inclusionFolders)
\* r2 names the scope of r1, up to letter case and separator style
SameSpelling(r1, r2) ==
    /\ NormPath(r1.clientRoot) = NormPath(r2.clientRoot)
    /\ Len(r1.inclusionFolders) = Len(r2.inclusionFolders)
    /\ \A i \in 1..Len(r1.inclusionFolders) :
          NormPath(r1.inclusionFolders[i]) = NormPath(r2.inclusionFolders[i])

\* C12: scopes whose roots and folders differ only in letter case or in
\* separator style are one scope: they have the same key, and the entry one
\* of them left serves the other.
C12_CaseAndSeparatorInsensitive ==
    (Served /\ Again(Resolved).fromCache)
        => \A r2 \in ScopeRequests :
              SameSpelling(Resolved, r2)
                 => (KeyOf(r2) = KeyOf(Resolved) /\ Again(r2).fromCache)
\* the positions of the requested folders whose scan subprocess fails
FailedFolders == {i \in 1..Len(req.r.inclusionFolders) :
                     /\ req.r.inclusionFolders[i] \in Disk.exists
                     /\ req.r.inclusionFolders[i] \in req.env.fail}
\* the raw output of the folders that are on disk and whose scan completes
CompletedOutput ==
    Flatten([i \in 1..Len(req.r.inclusionFolders) |->
                IF req.r.inclusionFolders[i] \in Disk.exists
                   /\ req.r.inclusionFolders[i] \notin req.env.fail
                THEN Disk.out[req.r.inclusionFolders[i]] \o NL ELSE <<>>])
HasLog(folder, status) == InSeq([folder |-> folder, status |-> status], resp.commandLogs)

\* C13: a folder whose scan subprocess fails does not abort the request: every
\* folder on disk is still scanned, the failed folder gets an 'error' log entry
\* and contributes nothing, and the response is a success with the records of
\* the folders that completed.
C13_FolderFailureIsolated ==
    (Responded /\ req.env.p4 /\ ~resp.fromCache /\ FailedFolders # {})
        => /\ resp.status = 200 /\ resp.success
           /\ \A i \in 1..Len(req.r.inclusionFolders) :
                 /\ req.r.inclusionFolders[i] \in Disk.exists
                       => InSeq(req.r.inclusionFolders[i], resp.spawned)
                 /\ i \in FailedFolders
                       => /\ HasLog(req.r.inclusionFolders[i], "error")
                          /\ ~HasLog(req.r.inclusionFolders[i], "success")
                 /\ (req.r.inclusionFolders[i] \in Disk.exists /\ i \notin FailedFolders)
                       => HasLog(req.r.inclusionFolders[i], "success")
           /\ resp.output = CompletedOutput
           /\ Len(resp.files) = Len(parseP4ReconcileOutput(CompletedOutput, MaxFilesOf(req.r)))
           /\ \A j \in 1..Len(resp.files) :
                 resp.files[j].depotPath
                    = parseP4ReconcileOutput(CompletedOutput, MaxFilesOf(req.r))[j].depotFile

C13_Witness ==
    /\ Served /\ ~resp.fromCache
    /\ req.r.inclusionFolders = <<FolderA, FolderB>>
    /\ req.env.fail = {FolderA}
    /\ resp.spawned = <<FolderA, FolderB>>
    /\ HasLog(FolderA, "error")
    /\ Len(resp.files) = 2
IsInfix(p, s) == \E i \in 0..(Len(s) - Len(p)) : SubSeq(s, i + 1, i + Len(p)) = p
\* the text of the cache file of the request's scope ("" if there is none)
CacheText(dir) ==
    IF CacheFileOf(KeyOf(Resolved)) \in DOMAIN dir
       /\ dir[CacheFileOf(KeyOf(Resolved))].kind = "text"
    THEN dir[CacheFileOf(KeyOf(Resolved))].text ELSE <<>>
\* the outputs of the folders before position k whose scans completed, as they
\* are appended to the cache file (sep = "") or to the response (sep = "\n")
CompletedBefore(k, sep) ==
    Flatten([i \in 1..(k - 1) |->
                IF req.r.inclusionFolders[i] \in Disk.exists
                   /\ req.r.inclusionFolders[i] \notin req.env.fail
                THEN Disk.out[req.r.inclusionFolders[i]] \o sep ELSE <<>>])

\* C14: in a per-folder scan each completed folder's output is in the scope's
\* cache entry before the next folder starts: when folder k fails, the outputs
\* of the folders before it are in the cache entry and in the response.
C14_FolderOutputCachedAtOnce ==
    (Responded /\ req.env.p4 /\ ~resp.fromCache)
        => \A k \in FailedFolders :
              /\ IsInfix(CompletedBefore(k, <<>>), CacheText(fs))
              /\ StartsWith(resp.output, CompletedBefore(k, NL))
\* the metadata file of the request's scope, and whether dir holds a readable
\* one that carries a timestamp
ScopeMetadata == MetadataFileOf(KeyOf(Resolved))
HasCreatedAt(dir) ==
    /\ ScopeMetadata \in DOMAIN dir
    /\ dir[ScopeMetadata].kind = "json"
    /\ dir[ScopeMetadata].timestamp # 0
\* some folder's output was appended to the scope's entry by the request
Appended ==
    /\ Responded /\ req.env.p4 /\ ~resp.fromCache /\ ~req.r.forceRefresh
    /\ \E i \in 1..Len(req.r.inclusionFolders) :
          HasLog(sanitizePathForP4Command(req.r.inclusionFolders[i]), "success")

\* C15: appending a folder's output to an entry that already exists leaves the
\* entry's createdAt unchanged; createdAt is the current time only when there
\* was no entry.
C15_AppendKeepsCreatedAt ==
    Appended
        => /\ HasCreatedAt(fs)
           /\ fs[ScopeMetadata].timestamp
                 = IF HasCreatedAt(req.before) THEN req.before[ScopeMetadata].timestamp
                   ELSE now

C15_Witness ==
    /\ Appended
    /\ HasCreatedAt(req.before)
    /\ req.before[ScopeMetadata].timestamp < now
    /\ fs[ScopeMetadata].timestamp = req.before[ScopeMetadata].timestamp
    /\ Len(CacheText(fs)) > Len(CacheText(req.before))
\* the scope's entry before the request is older than the expiry time
EntryExpired ==
    /\ CacheText(req.before) # <<>>
    /\ HasCreatedAt(req.before)
    /\ now - req.before[ScopeMetadata].timestamp > 60 * 60 * 1000
\* the entry the same request leaves when the cache directory is empty
FreshEntryText == CacheText(GET(EmptyDir, now, Disk, req.r, req.env).fs)

\* C16: an expired entry is discarded, not merged: after the fresh scan that a
\* non-forced miss on an expired entry causes, the entry holds only that scan's
\* output, for whole-workspace and per-folder scopes alike.
C16_ExpiredEntryDiscarded ==
    (Served /\ ~req.r.forceRefresh /\ ~resp.fromCache /\ EntryExpired /\ req.env = OkEnv)
        => CacheText(fs) = FreshEntryText
\* C17: a request whose workspace root is empty (no clientRoot parameter) or
\* cannot be resolved is rejected as an input error before any subprocess is
\* spawned.
C17_NoRootRejectedBeforeSpawn ==
    (Responded /\ req.r.clientRoot = <<>> /\ req.env.p4)
        => /\ resp.status = 400 /\ ~resp.success
           /\ resp.spawned = <<>>
           /\ ProbesSpawned(req.r, req.env) = <<>>
\* C18: the freshness timestamp (cacheTime) of a response served from the cache
\* is the createdAt stored in the entry's metadata, not the time of the request.
C18_CacheTimeIsCreatedAt ==
    (Served /\ resp.fromCache)
        => /\ HasCreatedAt(req.before)
           /\ resp.cacheTime = req.before[ScopeMetadata].timestamp
\* the records parsed from the raw output the response was built from
ParsedRecords == parseP4ReconcileOutput(resp.output, MaxFilesOf(req.r))
\* the mapping subprocess ran and failed (it does not run when a hit finds
\* mapping results cached)
MappingFailed ==
    /\ req.env.whereFails
    /\ ~(resp.fromCache /\ WhereFileOf(KeyOf(Resolved)) \in DOMAIN req.before)

\* C19: failure of the path-mapping step (the subprocess fails, or no table key
\* is a prefix of a record's depot path) never fails the request: the response
\* is a success with the parsed records in order, the unmapped ones with empty
\* local path fields.
C19_MappingFailureNotFatal ==
    /\ (Responded /\ req.env.p4 /\ req.env.whereFails /\ Resolved.clientRoot # <<>>)
          => Served
    /\ Served
          => /\ resp.success
             /\ Len(resp.files) = Len(ParsedRecords)
             /\ \A j \in 1..Len(resp.files) :
                   /\ resp.files[j].depotPath = ParsedRecords[j].depotFile
                   /\ resp.files[j].status = ParsedRecords[j].status
                   /\ (MappingFailed \/ MatchingBlocks(resp.files[j].depotPath) = {})
                         => (resp.files[j].localPath = <<>> /\ resp.files[j].localFile = <<>>)

C19_Witness ==
    /\ Served /\ MappingFailed
    /\ Len(resp.files) = 3
    /\ \A j \in 1..Len(resp.files) : resp.files[j].localPath = <<>>
\* C20: a cache-store error never fails a request: a cache read that throws
\* makes the request a miss that scans; a cache write that throws (clearing the
\* cache file, the per-folder append, the metadata write) leaves the response a
\* success with the scan's results and no folder reported as failed.
C20_StoreErrorNotFatal ==
    (Responded /\ req.env.p4 /\ req.env.fail = {} /\ req.env.store # "ok")
        => /\ resp.status = 200 /\ resp.success
           /\ \A j \in 1..Len(resp.commandLogs) : resp.commandLogs[j].status # "error"
           /\ req.env.store = "read" => (~resp.fromCache /\ resp.spawned # <<>>)
           /\ ~resp.fromCache
                 => resp.files = GET(req.before, now, Disk,
                                     [req.r EXCEPT !.forceRefresh = TRUE], OkEnv).resp.files

\* C21: every temporary file a request creates (tempFile, each folderTempFile,
\* depotPathsFile) has been removed when the request has finished, whatever
\* the exit path: success, a failed folder scan, a failed whole-workspace scan
\* answered with an error, a failed mapping subprocess.
C21_NoTempFileLeft ==
    Responded => TempFilesLeft(req.before, req.r, req.env, resp) = {}

\* every scan of the request completes and prints nothing
NoDifferences ==
    /\ Responded /\ req.env.p4 /\ ~resp.fromCache
    /\ req.env.fail = {}
    /\ \A u \in UnitsOf(req.r) : ScanOutput(Disk, u) = <<>>

\* C22: a scan that completes with empty raw output is a successful "no
\* differences" result: the response is a success with an empty list of files,
\* for the whole-workspace scan and for the per-folder scan (every folder's
\* output empty) alike.
C22_EmptyOutputIsSuccess ==
    NoDifferences
        => /\ resp.status = 200 /\ resp.success
           /\ resp.files = <<>> /\ resp.totalFiles = 0

C22_Witness ==
    /\ NoDifferences
    /\ req.r.inclusionFolders = <<FolderB>>
    /\ resp.spawned = <<FolderB>>
    /\ HasLog(FolderB, "success")
    /\ resp.success /\ resp.files = <<>>

\* C23: within one request the folders are scanned in the order supplied, and
\* the entry the request writes concatenates their outputs in that order so
\* that parsing the cached raw output, with the same maxFiles, gives the
\* records of the fresh response, also when a folder's output does not end
\* with a line break.
C23_CachedParsesAsFresh ==
    (/\ Served /\ ~resp.fromCache /\ ~req.r.forceRefresh /\ req.env = OkEnv
     /\ req.r.inclusionFolders # <<>>
     /\ CacheText(req.before) = <<>>)
        => /\ resp.spawned = WithoutMissing(req.r).inclusionFolders
           /\ parseP4ReconcileOutput(CacheText(fs), MaxFilesOf(req.r)) = ParsedRecords

\* the whole-workspace scan of the request failed
RootScanFailed ==
    /\ Responded /\ req.env.p4 /\ ~resp.fromCache
    /\ req.r.inclusionFolders = <<>>
    /\ req.r.clientRoot \in req.env.fail
\* what the failed subprocess had written to its output file
WrittenBeforeFailure == PartialOutput(ScanOutput(Disk, req.r.clientRoot), req.env)

\* C24: when the whole-workspace scan subprocess fails after writing output
\* that is not blank, that partial output is kept and parsed and the request
\* is answered as a success; only when there is no such output is it answered
\* with status 500.
C24_PartialOutputKept ==
    RootScanFailed
        => IF Trim(WrittenBeforeFailure) # <<>>
           THEN /\ resp.status = 200 /\ resp.success
                /\ resp.output = WrittenBeforeFailure
                /\ Len(resp.files)
                      = Len(parseP4ReconcileOutput(WrittenBeforeFailure, MaxFilesOf(req.r)))
                /\ \A j \in 1..Len(resp.files) :
                      resp.files[j].depotPath
                         = parseP4ReconcileOutput(WrittenBeforeFailure,
                                                  MaxFilesOf(req.r))[j].depotFile
           ELSE /\ resp.status = 500 /\ ~resp.success
                /\ resp.files = <<>>

C24_Witness ==
    /\ RootScanFailed /\ req.env.partial
    /\ resp.status = 200 /\ resp.success
    /\ Len(resp.files) = 1
    /\ resp.files[1].depotPath = PathA

\* the lines of the trimmed input: the printed lines without the blank ones at
\* either end
NonBlank(ks) == {i \in 1..Len(ks) : LineKinds[ks[i]].text # <<>>}
TrimmedLines(ks) ==
    IF NonBlank(ks) = {} THEN <<>>
    ELSE SubSeq(ks, CHOOSE i \in NonBlank(ks) : \A j \in NonBlank(ks) : i <= j,
                    CHOOSE i \in NonBlank(ks) : \A j \in NonBlank(ks) : i >= j)

\* C25: with a positive maxFiles the parser considers exactly the first
\* maxFiles lines of the trimmed input (which may hold fewer than maxFiles
\* records); with maxFiles zero, negative or not a number it considers every
\* line.
C25_FirstMaxFilesLines ==
    pout.done
        => pout.files = ExpectedRecords(IF pmax > 0 THEN Take(TrimmedLines(pin.lines), pmax)
                                        ELSE TrimmedLines(pin.lines))

C25_Witness ==
    /\ pout.done /\ pmax = 2
    /\ Len(pin.lines) = 3
    /\ LineKinds[pin.lines[1]].text = LineBad
    /\ LineKinds[pin.lines[2]].shape = "reconcile"
    /\ LineKinds[pin.lines[3]].shape = "opened"
    /\ Len(pout.files) = 1
    /\ pout.files[1].depotFile = LineKinds[pin.lines[2]].path

\* a scan unit of the request failed
UnitFailed ==
    /\ Responded /\ req.env.p4 /\ ~resp.fromCache
    /\ (RootScanFailed \/ FailedFolders # {})
\* the files of the request's scope in the cache directory
ScopeFiles == {CacheFileOf(KeyOf(Resolved)), MetadataFileOf(KeyOf(Resolved)),
               WhereFileOf(KeyOf(Resolved))}

\* C26: a scan unit that fails changes no cached result: the entries of every
\* other scope are as they were, what the scope's own entry already held is
\* still there, and nothing the failed unit printed (partial output included)
\* is in any cache entry.
C26_FailureWritesNothing ==
    UnitFailed
        => /\ \A f \in DOMAIN req.before :
                 f \notin ScopeFiles => (f \in DOMAIN fs /\ fs[f] = req.before[f])
           /\ DOMAIN fs \ DOMAIN req.before \subseteq ScopeFiles
           /\ RootScanFailed => fs = req.before
           /\ CacheText(fs)
                 = CacheText(req.before)
                      \o (IF req.r.forceRefresh \/ req.r.inclusionFolders = <<>> THEN <<>>
                          ELSE CompletedBefore(Len(req.r.inclusionFolders) + 1, <<>>))

C26_Witness ==
    /\ UnitFailed /\ ~req.r.forceRefresh
    /\ req.r.inclusionFolders = <<FolderA, FolderB>>
    /\ req.env.fail = {FolderB}
    /\ req.before # EmptyDir
    /\ CacheText(fs) = Disk.out[FolderA]
    /\ Disk.out[FolderB] # <<>>

\* C27: the path mapping applied to a response is request-scoped: it comes
\* from a run of the mapping subcommand made by this request over its own
\* records and is never reused from an earlier request, so a response served
\* from the cache never applies mapping output that an earlier request stored,
\* and has unmapped records when its own mapping subcommand fails.
C27_MappingRequestScoped ==
    (Served /\ resp.fromCache /\ resp.files # <<>>)
        => /\ ~CachedWhereUsable(req.before, TRUE, WhereFileOf(KeyOf(Resolved)))
           /\ req.env.whereFails
                 => \A j \in 1..Len(resp.files) : resp.files[j].localPath = <<>>

\* C28: whenever a request with included folders is served from the cache,
\* every folder of its list is among the processedFolders of the entry: a
\* folder whose scan failed or was skipped when the entry was made is never
\* silently missing from a later cached response.
C28_HitCoversEveryFolder ==
    (Served /\ resp.fromCache /\ req.r.inclusionFolders # <<>>)
        => /\ HasCreatedAt(req.before)
           /\ \A i \in 1..Len(req.r.inclusionFolders) :
                 InSeq(req.r.inclusionFolders[i], req.before[ScopeMetadata].processedFolders)

\* C29: a scope's cache recovers after expiry: when a non-forced request misses
\* because the entry is older than 60 minutes and its fresh scan completes with
\* output that is not empty, the createdAt of the entry is the time of that
\* scan and the same request, made again within 60 minutes, is served from the
\* cache; for folder scopes as for whole-workspace scopes.
C29_RecoversAfterExpiry ==
    (/\ Served /\ ~req.r.forceRefresh /\ ~resp.fromCache /\ EntryExpired
     /\ req.env = OkEnv /\ resp.files # <<>>)
        => /\ HasCreatedAt(fs)
           /\ fs[ScopeMetadata].timestamp = now
           /\ Again(req.r).fromCache

\* C30: every command passed to logP4CommandFromAPI is added to the persisted
\* command log by the polling loop: at any time a command that was passed is
\* in the log or is still waiting for the next poll, also when several
\* commands are passed between two polls.
C30_EveryCommandLogged ==
    \A c \in passed : InSeq(c, existingLogs) \/ tempCommand = <<c>>

====
